---- MODULE Spec2Model ----
(***************************************************************************)
(* Model of src/src/main.rs: a Bevy application with one droplet entity,   *)
(* a procedural checkerboard texture and four Update systems.              *)
(*                                                                         *)
(* Lengths, scales and velocities are f32 in the source; the model keeps   *)
(* them as integers in thousandths (1.0 is 1000, 0.1 is 100, 0.02 is 20).  *)
(* A Vec3 is a tuple <<x, y, z>>.                                          *)
(*                                                                         *)
(* One frame of the engine is: the physics step and the input update       *)
(* (BeginFrame), the four systems of the Update schedule in an order the   *)
(* engine chooses (no ordering is declared between them, main.rs:13), and  *)
(* the application of the systems' deferred Commands at the end of the     *)
(* schedule (ApplyDeferred).  A system mutates a component it holds        *)
(* through a Query at once; what it asks of Commands (insert, remove,      *)
(* spawn, despawn) is queued and reaches the world only in ApplyDeferred.  *)
(***************************************************************************)
EXTENDS Integers, Sequences, FiniteSets, Bags, TLC

\* ---------------------------------------------------------------- bounds

\* The longest batch of collision events the physics step delivers in a frame.
MaxEvents == 2

\* The environment stops delivering collision starts of an unsplashed droplet
\* once a further batch could take the number of particle entities past this.
MaxParticles == 40

\* ------------------------------------------------------ program constants

TEXTURE_SIZE == 512
TILE_SIZE == 64
WHITE == 255
GREY == 150
ALPHA == 255
PARTICLES_PER_SPLASH == 20
SPLASH_HEIGHT == 1000
WOBBLE_THRESHOLD == 500
WOBBLE_AMPLITUDE == 20

Vec3_ZERO == <<0, 0, 0>>
Vec3_ONE == <<1000, 1000, 1000>>
StartPosition == <<0, 5000, 0>>
SplashScale == <<2000, 100, 2000>>

\* ------------------------------------------------------------ state

VARIABLES
    translation,      \* droplet Transform.translation
    scale,            \* droplet Transform.scale
    velocity,         \* droplet Velocity: [linvel, angvel]
    hasSplashed,      \* the droplet entity carries the HasSplashed component
    particles,        \* bag of SplashParticle entities, each by the translation it was spawned at
    collision_events, \* the CollisionEvent batch this frame's EventReader reads
    keyR,             \* keys.just_pressed(KeyCode::KeyR) in this frame
    prevKeyR,         \* keyR of the frame before (history)
    pending,          \* Update systems that have not run yet in this frame
    splashCmds,       \* Commands queued by splash_on_impact in this frame
    resetCmds,        \* Commands queued by reset_droplet in this frame
    pc,               \* "frame_end" between frames, "update" while the schedule runs
    tx, ty,           \* create_checkerboard_image: loop counters x and y
    pixel,            \* create_checkerboard_image: the pixel written by the last loop body
    written,          \* create_checkerboard_image: number of loop bodies executed
    image             \* create_checkerboard_image: <<>> until the Image is returned, then <<Image>>

sceneVars == <<translation, scale, velocity, hasSplashed, particles,
               collision_events, keyR, prevKeyR, pending, splashCmds, resetCmds, pc>>
textureVars == <<tx, ty, pixel, written, image>>
vars == <<sceneVars, textureVars>>

Systems == {"animate_light", "animate_droplet", "reset_droplet", "splash_on_impact"}

\* Entities that can appear in a collision event: the droplet, the floor
\* collider and a splash particle (particles carry colliders too).
Started(a, b) == [kind |-> "Started", e1 |-> a, e2 |-> b]
Stopped(a, b) == [kind |-> "Stopped", e1 |-> a, e2 |-> b]
EventValues == {Started("droplet", "floor"), Started("floor", "droplet"),
                Started("floor", "particle"), Stopped("droplet", "floor")}

\* Where the physics step can leave the droplet, and with what velocity.
DropletPositions == {StartPosition, <<0, 1000, 0>>, <<250, 400, 0>>}
MovingVelocity == [linvel |-> <<0, -3000, 0>>, angvel |-> <<100, 0, 0>>]
ZeroVelocity == [linvel |-> Vec3_ZERO, angvel |-> Vec3_ZERO]
Velocities == {ZeroVelocity, MovingVelocity}

\* Values of sin and cos times 0.02 that the elapsed time can produce.
WobbleValues == {-WOBBLE_AMPLITUDE, WOBBLE_AMPLITUDE}

Batches == UNION {[1..n -> EventValues] : n \in 0..MaxEvents}

IsDropletStart(ev) == ev.kind = "Started" /\ (ev.e1 = "droplet" \/ ev.e2 = "droplet")
DropletStarts(batch) == Cardinality({i \in DOMAIN batch : IsDropletStart(batch[i])})

\* ------------------------------------------------------------ setup

TextureInit ==
    /\ tx = 0
    /\ ty = 0
    /\ pixel = [i |-> -1, x |-> -1, y |-> -1, bytes |-> <<>>]
    /\ written = 0
    /\ image = <<>>

SceneInit ==
    /\ translation = StartPosition
    /\ scale = Vec3_ONE
    /\ velocity = ZeroVelocity
    /\ hasSplashed = FALSE
    /\ particles = EmptyBag
    /\ collision_events = <<>>
    /\ keyR = FALSE
    /\ prevKeyR = FALSE
    /\ pending = {}
    /\ splashCmds = <<>>
    /\ resetCmds = <<>>
    /\ pc = "frame_end"

Init == SceneInit /\ TextureInit

\* ------------------------------------------------ physics step and input

BeginFrame ==
    /\ pc = "frame_end"
    /\ \E p \in DropletPositions, v \in Velocities, b \in Batches, k \in BOOLEAN :
          /\ \/ hasSplashed
             \/ BagCardinality(particles) + PARTICLES_PER_SPLASH * DropletStarts(b) <= MaxParticles
          /\ translation' = p
          /\ velocity' = v
          /\ collision_events' = b
          /\ keyR' = k
    /\ prevKeyR' = keyR
    /\ pending' = Systems
    /\ splashCmds' = <<>>
    /\ resetCmds' = <<>>
    /\ pc' = "update"
    /\ UNCHANGED <<scale, hasSplashed, particles, textureVars>>

\* ------------------------------------------------------------ animate_light

\* No entity carries RotateLight, so the query is empty and the loop body never runs.
animate_light ==
    /\ pc = "update"
    /\ "animate_light" \in pending
    /\ pending' = pending \ {"animate_light"}
    /\ UNCHANGED <<translation, scale, velocity, hasSplashed, particles, collision_events,
                   keyR, prevKeyR, splashCmds, resetCmds, pc, textureVars>>

\* ------------------------------------------------------------ animate_droplet

\* (mutation: the test reads the x axis of the scale)
WobbleGuard_WrongAxis(s) == s[1] > WOBBLE_THRESHOLD

\* if transform.scale.y > 0.5
WobbleGuard(s) == s[2] > WOBBLE_THRESHOLD

animate_droplet ==
    /\ pc = "update"
    /\ "animate_droplet" \in pending
    /\ pending' = pending \ {"animate_droplet"}
    /\ \E wobble_x \in WobbleValues, wobble_y \in WobbleValues, wobble_z \in WobbleValues :
          scale' = IF WobbleGuard(scale)
                   THEN <<1000 + wobble_x, 1000 + wobble_y, 1000 + wobble_z>>
                   ELSE scale
    /\ UNCHANGED <<translation, velocity, hasSplashed, particles, collision_events,
                   keyR, prevKeyR, splashCmds, resetCmds, pc, textureVars>>

\* ------------------------------------------------------------ splash_on_impact

\* Query<.., (With<Droplet>, Without<HasSplashed>)>::get_single_mut() is Ok:
\* the one droplet matches while the world holds no HasSplashed on it.
\* (mutation: the query without its Without<HasSplashed> filter)
DropletQueryMatches_NoFilter == TRUE

DropletQueryMatches == ~hasSplashed

\* *e1 == droplet_entity || *e2 == droplet_entity
InvolvesDroplet(ev) == ev.e1 = "droplet" \/ ev.e2 = "droplet"

\* (mutation: <= in place of <)
SplashGuard_Inclusive(t) == t[2] <= SPLASH_HEIGHT

\* transform.translation.y < 1.0
SplashGuard(t) == t[2] < SPLASH_HEIGHT

InsertHasSplashed == [op |-> "insert_HasSplashed"]
RemoveHasSplashed == [op |-> "remove_HasSplashed"]
SpawnParticle(at) == [op |-> "spawn", at |-> at]
DespawnParticle(at) == [op |-> "despawn", at |-> at]

\* for _ in 0..20 { commands.spawn((.., Transform::from_translation(transform.translation), ..)) }
RECURSIVE SpawnLoop(_, _)
SpawnLoop(n, at) ==
    IF n = 0 THEN <<>> ELSE <<SpawnParticle(at)>> \o SpawnLoop(n - 1, at)

\* for event in collision_events.read() { .. }: the scale written so far and
\* the commands queued so far, after the events evs.
RECURSIVE SplashEvents(_, _, _)
SplashEvents(evs, sc, cmds) ==
    IF evs = <<>>
    THEN [scale |-> sc, cmds |-> cmds]
    ELSE LET ev == Head(evs)
             splashes == /\ ev.kind = "Started"
                         /\ DropletQueryMatches
                         /\ InvolvesDroplet(ev)
                         /\ SplashGuard(translation)
         IN IF splashes
            THEN SplashEvents(Tail(evs), SplashScale,
                              cmds \o <<InsertHasSplashed>>
                                   \o SpawnLoop(PARTICLES_PER_SPLASH, translation))
            ELSE SplashEvents(Tail(evs), sc, cmds)

splash_on_impact ==
    /\ pc = "update"
    /\ "splash_on_impact" \in pending
    /\ pending' = pending \ {"splash_on_impact"}
    /\ LET r == SplashEvents(collision_events, scale, <<>>)
       IN /\ scale' = r.scale
          /\ splashCmds' = r.cmds
    /\ UNCHANGED <<translation, velocity, hasSplashed, particles, collision_events,
                   keyR, prevKeyR, resetCmds, pc, textureVars>>

\* ------------------------------------------------------------ reset_droplet

\* for entity in particle_query.iter() { commands.entity(entity).despawn(); }
RECURSIVE DespawnLoop(_)
DespawnLoop(bag) ==
    IF BagToSet(bag) = {}
    THEN <<>>
    ELSE LET at == CHOOSE e \in BagToSet(bag) : TRUE
         IN <<DespawnParticle(at)>> \o DespawnLoop(bag (-) SetToBag({at}))

reset_droplet ==
    /\ pc = "update"
    /\ "reset_droplet" \in pending
    /\ pending' = pending \ {"reset_droplet"}
    /\ IF keyR
       THEN /\ translation' = StartPosition
            /\ scale' = Vec3_ONE
            /\ velocity' = [linvel |-> Vec3_ZERO, angvel |-> Vec3_ZERO]
            /\ resetCmds' = <<RemoveHasSplashed>> \o DespawnLoop(particles)
       ELSE UNCHANGED <<translation, scale, velocity, resetCmds>>
    /\ UNCHANGED <<hasSplashed, particles, collision_events, keyR, prevKeyR,
                   splashCmds, pc, textureVars>>

\* ------------------------------------------------- deferred Commands

\* The world (marker and particle entities) after the commands cmds.
RECURSIVE ApplyCommands(_, _)
ApplyCommands(cmds, w) ==
    IF cmds = <<>>
    THEN w
    ELSE LET c == Head(cmds)
             w1 == CASE c.op = "insert_HasSplashed" -> [w EXCEPT !.marker = TRUE]
                     [] c.op = "remove_HasSplashed" -> [w EXCEPT !.marker = FALSE]
                     [] c.op = "spawn" -> [w EXCEPT !.parts = @ (+) SetToBag({c.at})]
                     [] c.op = "despawn" -> [w EXCEPT !.parts = @ (-) SetToBag({c.at})]
         IN ApplyCommands(Tail(cmds), w1)

\* End of the Update schedule: each system's command queue is applied, one
\* system after the other; which of the two queues goes first follows the
\* schedule's order of the systems, which main.rs leaves to the engine.
\* The frame's event batch has been read and is not read again.
ApplyDeferred ==
    /\ pc = "update"
    /\ pending = {}
    /\ \E first \in {"reset_droplet", "splash_on_impact"} :
          LET queue == IF first = "reset_droplet"
                       THEN resetCmds \o splashCmds
                       ELSE splashCmds \o resetCmds
              w == ApplyCommands(queue, [marker |-> hasSplashed, parts |-> particles])
          IN /\ hasSplashed' = w.marker
             /\ particles' = w.parts
    /\ splashCmds' = <<>>
    /\ resetCmds' = <<>>
    /\ collision_events' = <<>>
    /\ pc' = "frame_end"
    /\ UNCHANGED <<translation, scale, velocity, keyR, prevKeyR, pending, textureVars>>

Next ==
    \/ BeginFrame
    \/ animate_light
    \/ animate_droplet
    \/ reset_droplet
    \/ splash_on_impact
    \/ ApplyDeferred

Spec == Init /\ [][Next]_vars

\* ------------------------------------------------ create_checkerboard_image

\* (mutation: x used for both tile coordinates)
is_white_Stripes(x, y) == ((x \div TILE_SIZE) + (x \div TILE_SIZE)) % 2 = 0

\* let is_white = ((x / 64) + (y / 64)) % 2 == 0;
is_white(x, y) == ((x \div TILE_SIZE) + (y \div TILE_SIZE)) % 2 = 0

\* let i = (y * TEXTURE_SIZE + x) * 4;
PixelOffset(x, y) == (y * TEXTURE_SIZE + x) * 4

\* One body of the inner loop, and the step of the two loop counters.
WritePixel ==
    /\ image = <<>>
    /\ ty < TEXTURE_SIZE
    /\ LET color == IF is_white(tx, ty) THEN WHITE ELSE GREY
       IN pixel' = [i |-> PixelOffset(tx, ty), x |-> tx, y |-> ty,
                    bytes |-> <<color, color, color, ALPHA>>]
    /\ written' = written + 1
    /\ IF tx + 1 < TEXTURE_SIZE
       THEN tx' = tx + 1 /\ ty' = ty
       ELSE tx' = 0 /\ ty' = ty + 1
    /\ UNCHANGED <<image, sceneVars>>

\* Image::new(Extent3d { width, height, .. }, .., palette.to_vec(), ..)
ReturnImage ==
    /\ image = <<>>
    /\ ty = TEXTURE_SIZE
    /\ image' = <<[width |-> TEXTURE_SIZE, height |-> TEXTURE_SIZE,
                    len |-> TEXTURE_SIZE * TEXTURE_SIZE * 4]>>
    /\ UNCHANGED <<tx, ty, pixel, written, sceneVars>>

NextTexture ==
    \/ WritePixel
    \/ ReturnImage

SpecTexture == Init /\ [][NextTexture]_vars

\* ================================================================ claims

\* Steps of the Update schedule, told from the systems still pending.
SplashStep == "splash_on_impact" \in pending /\ "splash_on_impact" \notin pending'
ResetStep == "reset_droplet" \in pending /\ "reset_droplet" \notin pending'
ApplyStep == pc = "update" /\ pc' = "frame_end"

\* The claims' own reading of the trigger: a collision-start event with the
\* droplet as one of its two entities, no marker, and y below 1.0.
DropletStartIn(batch) ==
    \E i \in DOMAIN batch :
        /\ batch[i].kind = "Started"
        /\ "droplet" \in {batch[i].e1, batch[i].e2}
BelowSplashHeight == translation[2] < 1000
Trigger == DropletStartIn(collision_events) /\ ~hasSplashed /\ BelowSplashHeight

SplashesQueued == Len(SelectSeq(splashCmds, LAMBDA c : c.op = "insert_HasSplashed"))
Flattened == scale = <<2000, 100, 2000>>

\* C1: between two resets the splash effect happens at most once: one run of
\* splash_on_impact queues at most one splash, and there are never more than
\* 20 SplashParticle entities.
C1_SplashAtMostOnce ==
    /\ SplashesQueued <= 1
    /\ BagCardinality(particles) <= 20

\* C2: at the end of a frame in which R was just pressed the droplet is at
\* (0,5,0) with zero linear and angular velocity, is not flattened, has no
\* HasSplashed marker, and no SplashParticle entity exists.
C2_ResetRestoresInitialState ==
    (pc = "frame_end" /\ keyR) =>
        /\ translation = <<0, 5000, 0>>
        /\ velocity.linvel = <<0, 0, 0>>
        /\ velocity.angvel = <<0, 0, 0>>
        /\ ~Flattened
        /\ ~hasSplashed
        /\ particles = EmptyBag

\* C3: when splash_on_impact has processed a triggering event (it queued a
\* splash) and no particle existed before, then after the frame's commands are
\* applied the scale is (2.0,0.1,2.0), the marker is present and exactly 20
\* particles exist.
C3_SplashEffect ==
    [][(ApplyStep /\ SplashesQueued >= 1 /\ particles = EmptyBag) =>
          /\ scale' = <<2000, 100, 2000>>
          /\ hasSplashed'
          /\ BagCardinality(particles') = 20]_vars

\* C4: while the droplet carries the HasSplashed marker, splash_on_impact
\* queues no command and leaves the scale alone whatever the batch holds, and
\* a frame without a reset keypress ends with the same particles, scale and
\* marker.
C4_SplashIdempotent ==
    [][(hasSplashed /\ pc = "update") =>
          /\ SplashStep => (scale' = scale /\ splashCmds' = <<>>
                            /\ hasSplashed' /\ particles' = particles)
          /\ (ApplyStep /\ ~keyR) => (hasSplashed' /\ particles' = particles
                                      /\ scale' = scale)]_vars

\* C4 witness: splash_on_impact has run on a batch with two collision starts
\* of the droplet, below the splash height, with the marker present.
C4_Witness ==
    /\ pc = "update"
    /\ hasSplashed
    /\ "splash_on_impact" \notin pending
    /\ DropletStarts(collision_events) >= 2
    /\ BelowSplashHeight

\* C5: the three effects of a splash are atomic: a behaviour that is still to
\* run in the frame never finds the droplet flattened without the marker and
\* the particles being there too.
C5_SplashAtomic ==
    (pc = "update" /\ pending \cap {"animate_droplet", "reset_droplet"} # {}) =>
        (Flattened => (hasSplashed /\ BagCardinality(particles) >= 20))

\* C6: every pixel (x,y) of the 512x512 texture is written at byte offset
\* (y*512+x)*4, offsets follow one another without gap, the pixel is
\* (255,255,255,255) when floor(x/64)+floor(y/64) is even and (150,150,150,255)
\* otherwise, and the returned buffer has 512*512*4 bytes.
C6_Checkerboard ==
    /\ written > 0 =>
          /\ pixel.x \in 0..511 /\ pixel.y \in 0..511
          /\ pixel.i = (pixel.y * 512 + pixel.x) * 4
          /\ pixel.i = 4 * (written - 1)
          /\ pixel.bytes = IF ((pixel.x \div 64) + (pixel.y \div 64)) % 2 = 0
                           THEN <<255, 255, 255, 255>>
                           ELSE <<150, 150, 150, 255>>
          /\ pixel.bytes[4] = 255
    /\ image # <<>> =>
          /\ image[1].len = 512 * 512 * 4
          /\ image[1].width = 512 /\ image[1].height = 512
          /\ written = 512 * 512

\* C6 witness: the image has been returned after the last pixel (511,511).
C6_Witness ==
    /\ image # <<>>
    /\ pixel.x = 511 /\ pixel.y = 511

\* C7: once the scale is (2.0,0.1,2.0) it changes only in a step of
\* reset_droplet that sees the reset key pressed.
C7_WobbleKeepsSplashPose ==
    [][(Flattened /\ scale' # scale) => (ResetStep /\ keyR)]_vars

\* C7 witness: in a frame after the splash, without a reset keypress,
\* animate_droplet has run on the flattened droplet.
C7_Witness ==
    /\ pc = "update"
    /\ Flattened
    /\ hasSplashed
    /\ ~keyR
    /\ "animate_droplet" \notin pending

\* C8: splash_on_impact changes the scale or queues a command only when the
\* batch holds a collision-start event with the droplet, the droplet has no
\* marker and its y is below 1.0.
C8_SplashTriggerGuard ==
    [][SplashStep =>
          \/ Trigger
          \/ (scale' = scale /\ splashCmds' = <<>>
              /\ hasSplashed' = hasSplashed /\ particles' = particles)]_vars

\* C8 witness: splash_on_impact has run, before any reset, on a batch with a
\* collision start of the droplet at y >= 1.0 and queued nothing.
C8_Witness ==
    /\ pc = "update"
    /\ "splash_on_impact" \notin pending
    /\ "reset_droplet" \in pending
    /\ ~hasSplashed
    /\ translation[2] = 1000
    /\ DropletStartIn(collision_events)
    /\ splashCmds = <<>>

C10_SignalsAgree ==
    pc = "frame_end" =>
        /\ hasSplashed <=> (scale[2] <= 500)
        /\ (particles # EmptyBag) => hasSplashed

====
